---- MODULE Spec2Model ----
(***************************************************************************)
(* Health-check scheduler and flap-detection state machine of              *)
(* slack-status-bot: checkService, checkAll, serviceKey and                *)
(* detectTransitions, with the per-key ServiceState map.                   *)
(*                                                                         *)
(* The definitions follow the revision of the program that has checkAll,   *)
(* serviceKey and Transition.Downtime (src/main_test.go, lines 139-613).   *)
(* src/main.go is an earlier revision of the same functions: it probes the *)
(* services one after the other and keys the state map by the name alone;  *)
(* failThreshold is 4 in both.                                             *)
(*                                                                         *)
(* SpecTracker drives detectTransitions with one list of probe results per *)
(* cycle (runCycle: checkAll, then detectTransitions).                     *)
(* SpecSched is one call of checkAll: the launching loop, the semaphore    *)
(* channel, the WaitGroup and one goroutine per service.                   *)
(***************************************************************************)
EXTENDS Integers, Sequences, FiniteSets, TLC

\* ------------------------------------------------------------------------
\* Bounds of the model
\* ------------------------------------------------------------------------

\* number of detectTransitions calls (cycles) explored by SpecTracker
MaxCycles == 9

\* largest concurrency limit explored by SpecSched
MaxConcurrency == 3

\* number of checkService calls explored by SpecProbe
MaxProbes == 3

\* cycles of run() in SpecRun
MaxRunCycles == 5

\* ------------------------------------------------------------------------
\* Program constants and data
\* ------------------------------------------------------------------------

failThreshold == 4

\* time.Time{} (IsZero); time.Now() is always later
ZeroTime == 0

\* cfg.IntervalSeconds, the ticker period that separates two cycles
IntervalSeconds == 30

\* the time between two calls when the same results are replayed
ReplayIntervalSeconds == 3700

\* the time at which the replay starts
ReplayStart == 100000

Svc(n, u, e) == [Name |-> n, URL |-> u, Env |-> e]

ApiProd == Svc("api", "http://api", "production")
ApiDev == Svc("api", "http://api-dev", "development")
WebProd == Svc("web", "http://web", "production")
WebDev == Svc("web", "://web-dev", "development")
DbProd == Svc("db", "http://db", "production")

\* the services a configuration may list
Service == {ApiProd, ApiDev, WebProd, WebDev, DbProd}

\* the (name, environment) identity of a service
Ident(svc) == <<svc.Name, svc.Env>>

Idents == {Ident(svc) : svc \in Service}

\* services.json contents accepted by loadConfig: a non-empty service list
ServiceLists ==
    { <<ApiProd>>,
      <<ApiProd, ApiDev>>,
      <<WebDev, ApiProd>>,
      <<ApiProd, ApiProd>> }

\* service lists for one call of checkAll, up to five services
SchedServiceLists ==
    { <<ApiProd>>,
      <<ApiProd, ApiDev, WebProd>>,
      <<WebDev, ApiProd, ApiDev, WebProd>>,
      <<ApiProd, ApiDev, WebProd, WebDev, DbProd>> }

\* http.NewRequestWithContext rejects a URL that does not parse
MalformedURL(url) == url = "://web-dev"

\* what client.Do can come back with: a transport error or a response
StatusCodes == {200, 503}

Responses ==
    {[kind |-> "error", code |-> 0]} \cup
    {[kind |-> "response", code |-> c] : c \in StatusCodes}

\* the status codes SpecProbe answers with, on both sides of [200, 300)
ProbeStatusCodes == {100, 199, 200, 204, 299, 300, 404, 503}

ProbeResponses ==
    {[kind |-> "error", code |-> 0]} \cup
    {[kind |-> "response", code |-> c] : c \in ProbeStatusCodes}

\* CheckResult{} as make([]CheckResult, n) fills it
ZeroCheckResult ==
    [Service |-> Svc("", "", ""), Up |-> FALSE, StatusCode |-> 0, Error |-> ""]

\* variant: 300 counted as a success
checkService_Inclusive300(svc, resp) ==
    IF MalformedURL(svc.URL)
    THEN [Service |-> svc, Up |-> FALSE, StatusCode |-> 0, Error |-> "invalid url"]
    ELSE IF resp.kind = "error"
    THEN [Service |-> svc, Up |-> FALSE, StatusCode |-> 0, Error |-> "request failed"]
    ELSE LET up == resp.code >= 200 /\ resp.code <= 300
         IN  [Service |-> svc, Up |-> up, StatusCode |-> resp.code,
              Error |-> IF up THEN "" ELSE "http_" \o ToString(resp.code)]

checkService(svc, resp) ==
    IF MalformedURL(svc.URL)
    THEN [Service |-> svc, Up |-> FALSE, StatusCode |-> 0, Error |-> "invalid url"]
    ELSE IF resp.kind = "error"
    THEN [Service |-> svc, Up |-> FALSE, StatusCode |-> 0, Error |-> "request failed"]
    ELSE LET up == resp.code >= 200 /\ resp.code < 300
         IN  [Service |-> svc, Up |-> up, StatusCode |-> resp.code,
              Error |-> IF up THEN "" ELSE "http_" \o ToString(resp.code)]

\* variant: the state map keyed by the name alone
serviceKey_NameOnly(svc) == svc.Name

serviceKey(svc) == svc.Name \o ":" \o svc.Env

\* variant: transitions named by the bare service name
displayName_Bare(svc) == svc.Name

displayName(svc) == svc.Name \o " (" \o svc.Env \o ")"

\* &ServiceState{}
ZeroState == [IsDown |-> FALSE, FailCount |-> 0, DownSince |-> ZeroTime]

\* states[key], or the fresh state the loop stores for an unseen key
StateOf(st, key) == IF key \in DOMAIN st THEN st[key] ELSE ZeroState

MapSet(st, key, val) ==
    [k \in (DOMAIN st) \cup {key} |-> IF k = key THEN val ELSE st[k]]

\* formatDuration, in whole seconds
formatDuration(d) ==
    IF d < 60 THEN ToString(d) \o "s"
    ELSE IF d < 3600 THEN ToString(d \div 60) \o "m"
    ELSE LET hours == d \div 3600
             minutes == (d \div 60) % 60
         IN  IF minutes = 0 THEN ToString(hours) \o "h"
             ELSE ToString(hours) \o "h" \o ToString(minutes) \o "m"

\* variant: latching one failure early
tripped_Early(state) == ~state.IsDown /\ state.FailCount >= failThreshold - 1

\* variant: latching one failure late
tripped_Late(state) == ~state.IsDown /\ state.FailCount > failThreshold

\* variant: no check that the service is already Down
tripped_NoLatch(state) == state.FailCount >= failThreshold

\* the test that latches a service Down, made after FailCount++
tripped(state) == ~state.IsDown /\ state.FailCount >= failThreshold

\* variant: recovery reported, the counter left as it was
upOutcome_KeepCountOnRecovery(state, name, clock) ==
    IF state.IsDown
    THEN [emitted |-> << [ServiceName |-> name, Type |-> "up", Error |-> "",
                          Downtime |-> formatDuration(clock - state.DownSince)] >>,
          state |-> [state EXCEPT !.IsDown = FALSE, !.DownSince = ZeroTime]]
    ELSE [emitted |-> << >>, state |-> [state EXCEPT !.FailCount = 0]]

\* variant: the counter reset only on a recovery
upOutcome_ResetOnlyOnRecovery(state, name, clock) ==
    IF state.IsDown
    THEN [emitted |-> << [ServiceName |-> name, Type |-> "up", Error |-> "",
                          Downtime |-> formatDuration(clock - state.DownSince)] >>,
          state |-> [IsDown |-> FALSE, FailCount |-> 0, DownSince |-> ZeroTime]]
    ELSE [emitted |-> << >>, state |-> state]

\* variant: recovery reported, DownSince left as it was
upOutcome_KeepDownSince(state, name, clock) ==
    IF state.IsDown
    THEN [emitted |-> << [ServiceName |-> name, Type |-> "up", Error |-> "",
                          Downtime |-> formatDuration(clock - state.DownSince)] >>,
          state |-> [state EXCEPT !.IsDown = FALSE, !.FailCount = 0]]
    ELSE [emitted |-> << >>, state |-> [state EXCEPT !.FailCount = 0]]

\* the r.Up branch: the transitions appended and the state left
upOutcome(state, name, clock) ==
    LET downtime == IF state.DownSince # ZeroTime
                    THEN formatDuration(clock - state.DownSince)
                    ELSE ""
    IN  IF state.IsDown
        THEN [emitted |-> << [ServiceName |-> name, Type |-> "up",
                              Error |-> "", Downtime |-> downtime] >>,
              state |-> [IsDown |-> FALSE, FailCount |-> 0,
                         DownSince |-> ZeroTime]]
        ELSE [emitted |-> << >>, state |-> [state EXCEPT !.FailCount = 0]]

\* variant: debouncing by the time elapsed since the first failure of the run
downOutcome_ByElapsed(state, name, r, clock) ==
    LET counted == [state EXCEPT !.FailCount = @ + 1,
                                 !.DownSince = IF state.FailCount = 0 THEN clock ELSE @]
    IN  IF ~counted.IsDown /\ clock - counted.DownSince >= 90
        THEN [emitted |-> << [ServiceName |-> name, Type |-> "down",
                              Error |-> r.Error, Downtime |-> ""] >>,
              state |-> [counted EXCEPT !.IsDown = TRUE, !.DownSince = clock]]
        ELSE [emitted |-> << >>, state |-> counted]

\* variant: the service latched Down with no DownSince recorded
downOutcome_NoDownSince(state, name, r, clock) ==
    LET counted == [state EXCEPT !.FailCount = @ + 1]
    IN  IF tripped(counted)
        THEN [emitted |-> << [ServiceName |-> name, Type |-> "down",
                              Error |-> r.Error, Downtime |-> ""] >>,
              state |-> [counted EXCEPT !.IsDown = TRUE]]
        ELSE [emitted |-> << >>, state |-> counted]

\* the !r.Up branch
downOutcome(state, name, r, clock) ==
    LET counted == [state EXCEPT !.FailCount = @ + 1]
    IN  IF tripped(counted)
        THEN [emitted |-> << [ServiceName |-> name, Type |-> "down",
                              Error |-> r.Error, Downtime |-> ""] >>,
              state |-> [counted EXCEPT !.IsDown = TRUE, !.DownSince = clock]]
        ELSE [emitted |-> << >>, state |-> counted]

\* one iteration of the loop of detectTransitions: the transitions it
\* appends and the state map it leaves
trackOne(r, st, clock) ==
    LET key == serviceKey(r.Service)
        name == displayName(r.Service)
        state == StateOf(st, key)
        out == IF r.Up THEN upOutcome(state, name, clock)
               ELSE downOutcome(state, name, r, clock)
    IN  [emitted |-> out.emitted, states |-> MapSet(st, key, out.state)]

\* variant: new transitions put in front of the earlier ones
RECURSIVE detectFrom_Prepend(_, _, _, _, _)
detectFrom_Prepend(rs, i, acc, st, clock) ==
    IF i > Len(rs) THEN [transitions |-> acc, states |-> st]
    ELSE LET one == trackOne(rs[i], st, clock)
         IN  detectFrom_Prepend(rs, i + 1, one.emitted \o acc, one.states, clock)

RECURSIVE detectFrom(_, _, _, _, _)
detectFrom(rs, i, acc, st, clock) ==
    IF i > Len(rs) THEN [transitions |-> acc, states |-> st]
    ELSE LET one == trackOne(rs[i], st, clock)
         IN  detectFrom(rs, i + 1, acc \o one.emitted, one.states, clock)

detectTransitions(rs, st, clock) == detectFrom(rs, 1, << >>, st, clock)

\* ------------------------------------------------------------------------
\* State
\* ------------------------------------------------------------------------

VARIABLES
    services,      \* cfg.Services
    concurrency,   \* cfg.Concurrency
    states,        \* map[string]*ServiceState of run
    now,           \* the wall clock, in seconds
    calls,         \* detectTransitions calls made so far
    results,       \* the results of the last cycle
    transitions,   \* what the last detectTransitions call returned
    steps,         \* observer: one record per iteration of the last call
    streak,        \* observer: consecutive down outcomes seen per identity
    failures,      \* observer: down outcomes seen per identity, counted up to failThreshold
    alerted,       \* observer: a down transition was emitted for the identity at some time
    alerts,        \* observer: down transitions per identity since its last up outcome
    lastError,     \* observer: the error tag of the identity's previous outcome
    lastKind,      \* observer: the type of the identity's last transition ("" for none)
    replayStates,  \* replay: the state map of a second, fresh tracker fed the same results
    replayNow,     \* replay: the wall clock of the second tracker
    replayTransitions, \* replay: what the second tracker's last call returned
    cpc,           \* checkAll: where the calling goroutine is
    idx,           \* checkAll: the loop index i (1-based)
    sem,           \* checkAll: number of tokens in the sem channel
    wg,            \* checkAll: the WaitGroup counter
    gpc,           \* checkAll: where the goroutine launched by iteration g is
    garg,          \* checkAll: the (i, svc) arguments goroutine g was launched with
    out,           \* checkAll: the results slice
    probed,        \* observer: what checkService returned in goroutine g
    intended,      \* observer: what it would have returned with ctx not cancelled
    writes,        \* observer: number of stores into each slot of the results slice
    overtaken,     \* observer: some probe completed before one launched earlier
    probes,        \* SpecProbe: checkService calls made so far
    probeIn,       \* SpecProbe: the service and the network's answer of the last call
    probeResult,   \* SpecProbe: the CheckResult the last call returned
    rpc,           \* run: where the driver is
    ctxDone,       \* run: ctx of signal.NotifyContext is cancelled
    tickPending,   \* run: a tick waits in ticker.C
    cycles,        \* run: runCycle calls started
    lastIncident,  \* run: the LastIncident record
    boardTS,       \* the contents of the .board_ts file
    sinkCalls,     \* the Slack API calls of the last cycle, in order
    cycleErr,      \* what the last finished runCycle returned ("" for nil)
    cycleCtxDone,  \* observer: ctx was already cancelled when the cycle began
    afterCancel,   \* observer: a cycle was begun from the select with ctx cancelled
    detected       \* observer: states, lastIncident before and after, and time of the last tracker pass

replayVars == <<replayStates, replayNow, replayTransitions>>

trackerVars ==
    <<states, now, calls, results, transitions, steps, streak, failures, alerted,
      alerts, lastError, lastKind, replayVars>>

cfgVars == <<services, concurrency>>

schedVars ==
    <<cpc, idx, sem, wg, gpc, garg, out, probed, intended, writes, overtaken>>

probeVars == <<probes, probeIn, probeResult>>

runVars ==
    <<rpc, ctxDone, tickPending, cycles, lastIncident, boardTS, sinkCalls,
      cycleErr, cycleCtxDone, afterCancel, detected>>

vars == <<cfgVars, trackerVars, schedVars, probeVars, runVars>>

\* ------------------------------------------------------------------------
\* Observers of a detectTransitions call (they read the inputs only,
\* except for the before/after snapshots they copy)
\* ------------------------------------------------------------------------

StreakAfter(s, r) == IF r.Up THEN 0 ELSE s + 1

Min(a, b) == IF a < b THEN a ELSE b

EmitsDown(step) == \E j \in 1..Len(step.emitted) : step.emitted[j].Type = "down"

EmitsUp(step) == \E j \in 1..Len(step.emitted) : step.emitted[j].Type = "up"

\* the record of one iteration: the result, the map before and after, what
\* was appended, and the observers' counts for the result's identity
StepRecord(i, r, st, one, o) ==
    LET id == Ident(r.Service)
    IN  [index |-> i, r |-> r, before |-> st, after |-> one.states,
         emitted |-> one.emitted,
         streakBefore |-> o.streak[id],
         streak |-> StreakAfter(o.streak[id], r),
         errorBefore |-> o.lastError[id],
         kindBefore |-> o.lastKind[id],
         alerts |-> IF r.Up THEN 0
                    ELSE o.alerts[id]
                         + Len(SelectSeq(one.emitted, LAMBDA t : t.Type = "down"))]

ObserveOne(o, rec) ==
    LET id == Ident(rec.r.Service)
    IN  [steps |-> Append(o.steps, rec),
         streak |-> [o.streak EXCEPT ![id] = rec.streak],
         alerts |-> [o.alerts EXCEPT ![id] = rec.alerts],
         failures |-> [o.failures EXCEPT ![id] =
                          IF rec.r.Up THEN @ ELSE Min(@ + 1, failThreshold)],
         alerted |-> [o.alerted EXCEPT ![id] = @ \/ EmitsDown(rec)],
         lastError |-> [o.lastError EXCEPT ![id] = rec.r.Error],
         lastKind |-> [o.lastKind EXCEPT ![id] =
                          IF rec.emitted = << >> THEN @
                          ELSE rec.emitted[Len(rec.emitted)].Type]]

RECURSIVE observe(_, _, _, _, _)
observe(rs, i, st, clock, o) ==
    IF i > Len(rs) THEN o
    ELSE LET one == trackOne(rs[i], st, clock)
         IN  observe(rs, i + 1, one.states, clock,
                     ObserveOne(o, StepRecord(i, rs[i], st, one, o)))

\* ------------------------------------------------------------------------
\* SpecTracker: cycles of runCycle as the tracker sees them
\* ------------------------------------------------------------------------

TrackerStart ==
    /\ states = << >>
    /\ now = 1
    /\ calls = 0
    /\ results = << >>
    /\ transitions = << >>
    /\ steps = << >>
    /\ streak = [id \in Idents |-> 0]
    /\ failures = [id \in Idents |-> 0]
    /\ alerts = [id \in Idents |-> 0]
    /\ alerted = [id \in Idents |-> FALSE]
    /\ lastError = [id \in Idents |-> ""]
    /\ lastKind = [id \in Idents |-> ""]
    /\ replayStates = << >>
    /\ replayNow = ReplayStart
    /\ replayTransitions = << >>

\* checkAll not called
SchedIdle ==
    /\ cpc = "idle"
    /\ idx = 0
    /\ sem = 0
    /\ wg = 0
    /\ gpc = << >>
    /\ garg = << >>
    /\ out = << >>
    /\ probed = << >>
    /\ intended = << >>
    /\ writes = << >>
    /\ overtaken = FALSE

\* &LastIncident{}
ZeroIncident == [ServiceName |-> "", OccurredAt |-> ZeroTime, Duration |-> ""]

\* run not started: no signal, no ticker, no board message
RunIdle ==
    /\ rpc = "first"
    /\ ctxDone = FALSE
    /\ tickPending = FALSE
    /\ cycles = 0
    /\ lastIncident = ZeroIncident
    /\ boardTS = ""
    /\ sinkCalls = << >>
    /\ cycleErr = ""
    /\ cycleCtxDone = FALSE
    /\ afterCancel = FALSE
    /\ detected = [states |-> << >>, before |-> ZeroIncident,
                   after |-> ZeroIncident, at |-> ZeroTime]

\* checkService not called on its own
ProbeIdle ==
    /\ probes = 0
    /\ probeIn = [svc |-> Svc("", "", ""), resp |-> [kind |-> "error", code |-> 0]]
    /\ probeResult = ZeroCheckResult

InitTracker ==
    /\ services \in ServiceLists
    /\ concurrency = 1
    /\ SchedIdle
    /\ ProbeIdle
    /\ RunIdle
    /\ TrackerStart

\* results := checkAll(...); transitions := detectTransitions(results, states)
TrackerCycle(resps) ==
    /\ calls < MaxCycles
    /\ LET rs == [i \in 1..Len(services) |-> checkService(services[i], resps[i])]
           ret == detectTransitions(rs, states, now)
           obs == observe(rs, 1, states, now,
                          [steps |-> << >>, streak |-> streak, alerts |-> alerts,
                           failures |-> failures, alerted |-> alerted,
                           lastError |-> lastError, lastKind |-> lastKind])
       IN  /\ results' = rs
           /\ transitions' = ret.transitions
           /\ states' = ret.states
           /\ steps' = obs.steps
           /\ streak' = obs.streak
           /\ alerts' = obs.alerts
           /\ failures' = obs.failures
           /\ alerted' = obs.alerted
           /\ lastError' = obs.lastError
           /\ lastKind' = obs.lastKind
           /\ LET again == detectTransitions(rs, replayStates, replayNow)
              IN  /\ replayTransitions' = again.transitions
                  /\ replayStates' = again.states
    /\ now' = now + IntervalSeconds
    /\ replayNow' = replayNow + ReplayIntervalSeconds
    /\ calls' = calls + 1
    /\ UNCHANGED <<cfgVars, schedVars, probeVars, runVars>>

NextTracker ==
    \E resps \in [1..Len(services) -> Responses] : TrackerCycle(resps)

SpecTracker == InitTracker /\ [][NextTracker]_vars

\* ------------------------------------------------------------------------
\* SpecSched: one call of checkAll(ctx, client, services, concurrency)
\* ------------------------------------------------------------------------

N == Len(services)

\* goroutines launched whose probe has not returned
InFlight == {g \in DOMAIN gpc : gpc[g] = "probe"}

\* goroutines launched that have not yet taken their token back from sem
Holding == {g \in DOMAIN gpc : gpc[g] \in {"probe", "release"}}

\* variant: a channel with one slot too many
semCapacity_OneMore == concurrency + 1

\* make(chan struct{}, concurrency)
semCapacity == concurrency

\* variant: every goroutine sees the last service of the loop
launchArgs_LastOfLoop(i) == [i |-> N, svc |-> services[N]]

\* go func(i int, svc Service) {...}(i, svc): the arguments are copied
launchArgs(i) == [i |-> i, svc |-> services[i]]

\* variant: no wait for the goroutines
waitDone_NoWait == TRUE

\* wg.Wait() returns
waitDone == wg = 0

\* results := make(...); sem := make(...); var wg sync.WaitGroup
InitSched ==
    /\ services \in SchedServiceLists
    /\ concurrency \in 1..MaxConcurrency
    /\ TrackerStart
    /\ ProbeIdle
    /\ RunIdle
    /\ cpc = "loop"
    /\ idx = 1
    /\ sem = 0
    /\ wg = 0
    /\ gpc = [g \in 1..Len(services) |-> "none"]
    /\ garg = [g \in 1..Len(services) |-> [i |-> 0, svc |-> Svc("", "", "")]]
    /\ out = [i \in 1..Len(services) |-> ZeroCheckResult]
    /\ probed = [g \in 1..Len(services) |-> ZeroCheckResult]
    /\ intended = [g \in 1..Len(services) |-> ZeroCheckResult]
    /\ writes = [i \in 1..Len(services) |-> 0]
    /\ overtaken = FALSE

\* for i, svc := range services { wg.Add(1)
LoopAdd ==
    /\ cpc = "loop"
    /\ idx <= N
    /\ wg' = wg + 1
    /\ cpc' = "send"
    /\ UNCHANGED <<idx, sem, gpc, garg, out, probed, intended, writes, overtaken>>

\* sem <- struct{}{}: blocks while the channel is full
SemSend ==
    /\ cpc = "send"
    /\ sem < semCapacity
    /\ sem' = sem + 1
    /\ cpc' = "go"
    /\ UNCHANGED <<idx, wg, gpc, garg, out, probed, intended, writes, overtaken>>

\* go func(i, svc) {...}(i, svc); next iteration
Launch ==
    /\ cpc = "go"
    /\ gpc' = [gpc EXCEPT ![idx] = "probe"]
    /\ garg' = [garg EXCEPT ![idx] = launchArgs(idx)]
    /\ idx' = idx + 1
    /\ cpc' = "loop"
    /\ UNCHANGED <<sem, wg, out, probed, intended, writes, overtaken>>

\* the loop is over: wg.Wait()
LoopEnd ==
    /\ cpc = "loop"
    /\ idx > N
    /\ cpc' = "wait"
    /\ UNCHANGED <<idx, sem, wg, gpc, garg, out, probed, intended, writes, overtaken>>

\* wg.Wait() returns; return results
WaitReturn ==
    /\ cpc = "wait"
    /\ waitDone
    /\ cpc' = "returned"
    /\ UNCHANGED <<idx, sem, wg, gpc, garg, out, probed, intended, writes, overtaken>>

\* client.Do(req) for a request made with ctx: the answer of the network,
\* or an error once ctx is cancelled
clientDo(done, resp) == IF done THEN [kind |-> "error", code |-> 0] ELSE resp

\* goroutine g: results[i] = checkService(ctx, client, svc)
Probe(g, resp) ==
    /\ gpc[g] = "probe"
    /\ LET r == checkService(garg[g].svc, clientDo(ctxDone, resp))
       IN  /\ out' = [out EXCEPT ![garg[g].i] = r]
           /\ probed' = [probed EXCEPT ![g] = r]
           /\ writes' = [writes EXCEPT ![garg[g].i] = @ + 1]
    /\ intended' = [intended EXCEPT ![g] = checkService(garg[g].svc, resp)]
    /\ overtaken' = (overtaken \/ \E h \in DOMAIN gpc : h < g /\ gpc[h] = "probe")
    /\ gpc' = [gpc EXCEPT ![g] = "release"]
    /\ UNCHANGED <<cpc, idx, sem, wg, garg>>

\* goroutine g: defer func() { <-sem }()
SemReceive(g) ==
    /\ gpc[g] = "release"
    /\ sem > 0
    /\ sem' = sem - 1
    /\ gpc' = [gpc EXCEPT ![g] = "done"]
    /\ UNCHANGED <<cpc, idx, wg, garg, out, probed, intended, writes, overtaken>>

\* goroutine g: defer wg.Done()
WgDone(g) ==
    /\ gpc[g] = "done"
    /\ wg' = wg - 1
    /\ gpc' = [gpc EXCEPT ![g] = "exited"]
    /\ UNCHANGED <<cpc, idx, sem, garg, out, probed, intended, writes, overtaken>>

\* a step of checkAll or of one of its goroutines, the network answering from R
SchedStep(R) ==
    \/ LoopAdd
    \/ SemSend
    \/ Launch
    \/ LoopEnd
    \/ WaitReturn
    \/ \E g \in DOMAIN gpc, resp \in R : Probe(g, resp)
    \/ \E g \in DOMAIN gpc : SemReceive(g)
    \/ \E g \in DOMAIN gpc : WgDone(g)

NextSched ==
    /\ SchedStep(Responses)
    /\ UNCHANGED <<cfgVars, trackerVars, probeVars, runVars>>

SpecSched == InitSched /\ [][NextSched]_vars

\* ------------------------------------------------------------------------
\* SpecProbe: calls of checkService(ctx, client, svc)
\* ------------------------------------------------------------------------

InitProbe ==
    /\ services \in ServiceLists
    /\ concurrency = 1
    /\ TrackerStart
    /\ SchedIdle
    /\ ProbeIdle
    /\ RunIdle

ProbeCall(svc, resp) ==
    /\ probes < MaxProbes
    /\ probes' = probes + 1
    /\ probeIn' = [svc |-> svc, resp |-> resp]
    /\ probeResult' = checkService(svc, resp)
    /\ UNCHANGED <<cfgVars, trackerVars, schedVars, runVars>>

NextProbe == \E svc \in Service, resp \in ProbeResponses : ProbeCall(svc, resp)

SpecProbe == InitProbe /\ [][NextProbe]_vars

\* ------------------------------------------------------------------------
\* SpecRun: run() from signal.NotifyContext on: the first cycle, the ticker,
\* the select loop, and runCycle with its sink calls
\* ------------------------------------------------------------------------

RunServiceLists == { <<ApiProd, ApiDev>> }

RunConcurrency == {2}

\* what the network answers in SpecRun
RunResponses ==
    {[kind |-> "error", code |-> 0], [kind |-> "response", code |-> 200]}

\* the timestamp Slack returns for a posted board message
NewTS == "1700000000.000100"

SinkCall(api, ok) == [api |-> api, ok |-> ok]

\* upsertBoard: the error returned, the .board_ts file afterwards, the calls made
upsertBoard(ts, updateOk, postOk, saveOk) ==
    LET posted ==
            IF ~postOk THEN [err |-> "post message", ts |-> ts]
            ELSE IF ~saveOk THEN [err |-> "write .board_ts", ts |-> ts]
            ELSE [err |-> "", ts |-> NewTS]
    IN  IF ts = ""
        THEN [err |-> posted.err, ts |-> posted.ts,
              calls |-> <<SinkCall("PostMessage", postOk)>>]
        ELSE IF ~updateOk
        THEN [err |-> posted.err, ts |-> posted.ts,
              calls |-> <<SinkCall("UpdateMessage", FALSE),
                          SinkCall("PostMessage", postOk)>>]
        ELSE [err |-> "", ts |-> ts,
              calls |-> <<SinkCall("UpdateMessage", TRUE)>>]

\* postThreadAlert: nothing is posted without a board message to reply to
postThreadAlert(ts, batch, ok) ==
    IF ts = "" THEN << >> ELSE <<SinkCall(batch, ok)>>

\* sendAlerts: the calls made, one per non-empty batch, the down batch first
sendAlerts(ts, trs, downOk, upOk) ==
    LET downLines == SelectSeq(trs, LAMBDA t : t.Type = "down")
        upLines == SelectSeq(trs, LAMBDA t : t.Type # "down")
    IN  (IF Len(downLines) > 0 THEN postThreadAlert(ts, "alert down", downOk)
         ELSE << >>)
        \o (IF Len(upLines) > 0 THEN postThreadAlert(ts, "alert up", upOk)
            ELSE << >>)

\* variant: the first qualifying transition of a cycle is kept
RECURSIVE recordIncidents_FirstWins(_, _, _, _)
recordIncidents_FirstWins(trs, i, inc, clock) ==
    IF i > Len(trs) THEN inc
    ELSE IF trs[i].Type = "up" /\ trs[i].Downtime # ""
    THEN [ServiceName |-> trs[i].ServiceName, OccurredAt |-> clock,
          Duration |-> trs[i].Downtime]
    ELSE recordIncidents_FirstWins(trs, i + 1, inc, clock)

\* for _, t := range transitions { if t.Type == "up" && t.Downtime != "" {...} }
RECURSIVE recordIncidents(_, _, _, _)
recordIncidents(trs, i, inc, clock) ==
    IF i > Len(trs) THEN inc
    ELSE IF trs[i].Type = "up" /\ trs[i].Downtime # ""
    THEN recordIncidents(trs, i + 1,
                         [ServiceName |-> trs[i].ServiceName,
                          OccurredAt |-> clock,
                          Duration |-> trs[i].Downtime], clock)
    ELSE recordIncidents(trs, i + 1, inc, clock)

\* variant: run returns when a cycle fails
afterCycle_ReturnOnError(err) == IF err # "" THEN "returned" ELSE "select"

\* if err := runCycle(...); err != nil { fmt.Fprintf(os.Stderr, ...) }
afterCycle(err) == "select"

\* time.NewTicker has been called and ticker.Stop() has not
tickerRunning ==
    /\ rpc # "returned"
    /\ cycles > 1 \/ (cycles = 1 /\ rpc = "select")

InitRun ==
    /\ services \in RunServiceLists
    /\ concurrency \in RunConcurrency
    /\ TrackerStart
    /\ SchedIdle
    /\ ProbeIdle
    /\ RunIdle

\* runCycle is entered: checkAll makes results, sem and wg
EnterCycle ==
    /\ rpc' = "checkAll"
    /\ cycles' = cycles + 1
    /\ cycleCtxDone' = ctxDone
    /\ sinkCalls' = << >>
    /\ cpc' = "loop"
    /\ idx' = 1
    /\ sem' = 0
    /\ wg' = 0
    /\ gpc' = [g \in 1..Len(services) |-> "none"]
    /\ garg' = [g \in 1..Len(services) |-> [i |-> 0, svc |-> Svc("", "", "")]]
    /\ out' = [i \in 1..Len(services) |-> ZeroCheckResult]
    /\ probed' = [g \in 1..Len(services) |-> ZeroCheckResult]
    /\ intended' = [g \in 1..Len(services) |-> ZeroCheckResult]
    /\ writes' = [i \in 1..Len(services) |-> 0]
    /\ overtaken' = FALSE
    /\ UNCHANGED <<cfgVars, probeVars, states, calls, results, transitions,
                   steps, streak, failures, alerted, alerts, lastError, lastKind,
                   replayVars, ctxDone, lastIncident, boardTS, cycleErr,
                   detected>>

\* the runCycle call before the ticker is made
FirstCycle ==
    /\ rpc = "first"
    /\ EnterCycle
    /\ UNCHANGED <<now, tickPending, afterCancel>>

\* case <-ticker.C: runCycle(...); select takes any case that is ready.
\* The tick is taken one interval after the previous cycle began.
TickCycle ==
    /\ rpc = "select"
    /\ tickPending
    /\ cycles < MaxRunCycles
    /\ tickPending' = FALSE
    /\ now' = now + IntervalSeconds
    /\ afterCancel' = (afterCancel \/ ctxDone)
    /\ EnterCycle

\* a step inside checkAll
CheckAllStep ==
    /\ SchedStep(RunResponses)
    /\ UNCHANGED <<cfgVars, trackerVars, probeVars, runVars>>

\* runCycle after checkAll has returned: the tracker pass, the incident
\* record, the board, the alerts; then back in run
FinishCycle(updateOk, postOk, saveOk, downOk, upOk) ==
    /\ rpc = "checkAll"
    /\ cpc = "returned"
    /\ LET ret == detectTransitions(out, states, now)
           inc == recordIncidents(ret.transitions, 1, lastIncident, now)
           board == upsertBoard(boardTS, updateOk, postOk, saveOk)
           posts == IF board.err # "" THEN << >>
                    ELSE sendAlerts(board.ts, ret.transitions, downOk, upOk)
       IN  /\ results' = out
           /\ transitions' = ret.transitions
           /\ states' = ret.states
           /\ lastIncident' = inc
           /\ detected' = [states |-> ret.states, before |-> lastIncident,
                           after |-> inc, at |-> now]
           /\ boardTS' = board.ts
           /\ sinkCalls' = board.calls \o posts
           /\ cycleErr' = IF board.err # "" THEN "upsert board: " \o board.err
                          ELSE ""
           /\ rpc' = afterCycle(board.err)
    /\ calls' = calls + 1
    /\ UNCHANGED <<cfgVars, schedVars, probeVars, now, steps, streak, failures,
                   alerted, alerts, lastError, lastKind, replayVars, ctxDone,
                   tickPending, cycles, cycleCtxDone, afterCancel>>

\* the ticker fires: ticker.C holds one tick
Tick ==
    /\ tickerRunning
    /\ ~tickPending
    /\ cycles < MaxRunCycles
    /\ tickPending' = TRUE
    /\ UNCHANGED <<cfgVars, trackerVars, schedVars, probeVars, rpc, ctxDone,
                   cycles, lastIncident, boardTS, sinkCalls, cycleErr,
                   cycleCtxDone, afterCancel, detected>>

\* os.Interrupt or SIGTERM: ctx is cancelled
Cancel ==
    /\ ~ctxDone
    /\ rpc # "returned"
    /\ ctxDone' = TRUE
    /\ UNCHANGED <<cfgVars, trackerVars, schedVars, probeVars, rpc,
                   tickPending, cycles, lastIncident, boardTS, sinkCalls,
                   cycleErr, cycleCtxDone, afterCancel, detected>>

\* case <-ctx.Done(): return nil
Return ==
    /\ rpc = "select"
    /\ ctxDone
    /\ rpc' = "returned"
    /\ UNCHANGED <<cfgVars, trackerVars, schedVars, probeVars, ctxDone,
                   tickPending, cycles, lastIncident, boardTS, sinkCalls,
                   cycleErr, cycleCtxDone, afterCancel, detected>>

NextRun ==
    \/ FirstCycle
    \/ TickCycle
    \/ CheckAllStep
    \/ \E updateOk, postOk, saveOk, downOk, upOk \in BOOLEAN :
           FinishCycle(updateOk, postOk, saveOk, downOk, upOk)
    \/ Tick
    \/ Cancel
    \/ Return

SpecRun == InitRun /\ [][NextRun]_vars

\* ------------------------------------------------------------------------
\* Properties of the tracker (SpecTracker)
\* ------------------------------------------------------------------------

StepIdx == 1..Len(steps)

\* the state the tracker holds for the service of a step, before and after
Before(step) == StateOf(step.before, serviceKey(step.r.Service))
After(step) == StateOf(step.after, serviceKey(step.r.Service))

\* "<name> (<environment>)"
Shown(svc) == svc.Name \o " (" \o svc.Env \o ")"

DistinctServices ==
    \A i, j \in 1..Len(services) :
        i # j => Ident(services[i]) # Ident(services[j])

DownTransition(r) ==
    [ServiceName |-> Shown(r.Service), Type |-> "down", Error |-> r.Error,
     Downtime |-> ""]

C4_NoRepeatedDown ==
    \A j \in StepIdx :
        /\ steps[j].alerts <= 1
        /\ (~steps[j].r.Up /\ (steps[j].streak > 4 \/ Before(steps[j]).IsDown)) =>
               /\ steps[j].emitted = << >>
               /\ After(steps[j]).IsDown
               /\ After(steps[j]).FailCount = Before(steps[j]).FailCount + 1
               /\ After(steps[j]).FailCount = steps[j].streak
               /\ After(steps[j]).DownSince = Before(steps[j]).DownSince

\* three more failures after the one that latched the service Down
C4_Witness ==
    \E j \in StepIdx :
        /\ steps[j].streak = 7
        /\ steps[j].alerts = 1
        /\ steps[j].emitted = << >>
        /\ After(steps[j]).FailCount = 7

UpsNamed(name) == SelectSeq(transitions, LAMBDA t : t.Type = "up" /\ t.ServiceName = name)

\* C5: one up outcome for a service that is Down emits exactly one "up"
\* transition for it in that cycle, leaves it Up and resets the counter to 0.
C5_RecoveryAtOnce ==
    \A j \in StepIdx :
        (steps[j].r.Up /\ (steps[j].streakBefore >= 4 \/ Before(steps[j]).IsDown)) =>
            /\ Len(steps[j].emitted) = 1
            /\ steps[j].emitted[1].Type = "up"
            /\ steps[j].emitted[1].ServiceName = Shown(steps[j].r.Service)
            /\ ~After(steps[j]).IsDown
            /\ After(steps[j]).FailCount = 0
            /\ DistinctServices => Len(UpsNamed(Shown(steps[j].r.Service))) = 1

\* the first up outcome after the failure that latched the service Down
C5_Witness ==
    \E j \in StepIdx :
        /\ steps[j].r.Up
        /\ steps[j].streakBefore = 4
        /\ Before(steps[j]).IsDown
        /\ Len(steps[j].emitted) = 1
        /\ After(steps[j]).FailCount = 0

C7_PerKeyState ==
    /\ \A j \in StepIdx :
           /\ \A k \in DOMAIN steps[j].after :
                  k # serviceKey(steps[j].r.Service) =>
                      k \in DOMAIN steps[j].before
                      /\ steps[j].after[k] = steps[j].before[k]
           /\ \A i \in 1..Len(services) :
                  Ident(services[i]) # Ident(steps[j].r.Service) =>
                      StateOf(steps[j].after, serviceKey(services[i]))
                          = StateOf(steps[j].before, serviceKey(services[i]))
    /\ \A i \in 1..Len(services) :
           LET st == StateOf(states, serviceKey(services[i]))
           IN  /\ st.FailCount = streak[Ident(services[i])]
               /\ st.IsDown <=> streak[Ident(services[i])] >= 4

\* "api" is Down in production while "api" in development is Up with two
\* failures counted
C7_Witness ==
    /\ services = <<ApiProd, ApiDev>>
    /\ StateOf(states, serviceKey(ApiProd)).IsDown
    /\ ~StateOf(states, serviceKey(ApiDev)).IsDown
    /\ StateOf(states, serviceKey(ApiDev)).FailCount = 2
    /\ StateOf(states, serviceKey(ApiProd)).FailCount = 5

\* what the iterations 1..j of the last call appended, in iteration order
RECURSIVE EmittedUpTo(_)
EmittedUpTo(j) == IF j = 0 THEN << >> ELSE EmittedUpTo(j - 1) \o steps[j].emitted

\* C17: the transitions a call returns are those its outcomes caused, in the
\* order of the outcomes, an outcome causing at most one and an outcome that
\* causes none leaving no entry; with distinct services in the configuration
\* no service has two transitions in one call.
C17_TransitionsInResultOrder ==
    /\ Len(steps) = Len(results)
    /\ \A j \in StepIdx :
           /\ steps[j].r = results[j]
           /\ Len(steps[j].emitted) <= 1
           /\ \A k \in 1..Len(steps[j].emitted) :
                  steps[j].emitted[k].ServiceName = Shown(results[j].Service)
    /\ transitions = EmittedUpTo(Len(steps))
    /\ DistinctServices =>
           \A a, b \in 1..Len(transitions) :
               a # b => transitions[a].ServiceName # transitions[b].ServiceName

\* the first service recovers in the cycle in which the second is latched Down
C17_Witness ==
    /\ Len(results) = 2
    /\ DistinctServices
    /\ Len(transitions) = 2
    /\ transitions[1] = steps[1].emitted[1]
    /\ transitions[1].Type = "up"
    /\ transitions[2].Type = "down"
    /\ transitions[2].ServiceName = Shown(results[2].Service)

\* C19: every "up" transition carries a nonempty downtime, because a service
\* that is Down always has its DownSince set.
C19_UpCarriesDowntime ==
    /\ \A k \in DOMAIN states : states[k].IsDown => states[k].DownSince # ZeroTime
    /\ \A j \in 1..Len(transitions) :
           transitions[j].Type = "up" => transitions[j].Downtime # ""

\* a recovery two cycles after the service was latched Down
C19_Witness ==
    \E j \in 1..Len(transitions) :
        /\ transitions[j].Type = "up"
        /\ transitions[j].Downtime = "1m"


\* kind, name and error tag of a transition
Event(t) == [ServiceName |-> t.ServiceName, Type |-> t.Type, Error |-> t.Error]

\* C18: the same per-cycle result lists fed to a second fresh tracker at other
\* times give the same transitions (kind, name, error tag) in the same cycles
\* and the same isDown and failure counter for every key.
C18_ReplayDeterministic ==
    /\ Len(replayTransitions) = Len(transitions)
    /\ \A j \in 1..Len(transitions) :
           Event(replayTransitions[j]) = Event(transitions[j])
    /\ DOMAIN replayStates = DOMAIN states
    /\ \A k \in DOMAIN states :
           /\ replayStates[k].IsDown = states[k].IsDown
           /\ replayStates[k].FailCount = states[k].FailCount

\* a recovery reported by both trackers, with different downtimes
C18_Witness ==
    \E j \in 1..Len(transitions) :
        /\ transitions[j].Type = "up"
        /\ Event(replayTransitions[j]) = Event(transitions[j])
        /\ transitions[j].Downtime = "30s"
        /\ replayTransitions[j].Downtime = "1h1m"


\* every ServiceState the tracker has held in the last call or holds now
TrackedStates ==
    {states[k] : k \in DOMAIN states}
    \cup UNION {{steps[j].after[k] : k \in DOMAIN steps[j].after} : j \in StepIdx}

C22_DownSinceIffDown ==
    \A s \in TrackedStates : s.IsDown <=> s.DownSince # ZeroTime

\* a service that was Down, recovered, and has failed twice since
C22_Witness ==
    \E i \in 1..Len(services) :
        LET s == StateOf(states, serviceKey(services[i]))
        IN  /\ alerted[Ident(services[i])]
            /\ ~s.IsDown
            /\ s.FailCount = 2
            /\ s.DownSince = ZeroTime

\* C23: for every service the transitions emitted over the cycles alternate
\* down, up, down, up, ... and begin with "down": an outcome emits at most
\* one transition, a "down" if the service's last transition was an "up" or
\* it has had none, an "up" if its last transition was a "down".
C23_TransitionsAlternate ==
    \A j \in StepIdx :
        /\ Len(steps[j].emitted) <= 1
        /\ steps[j].emitted # << >> =>
               /\ steps[j].emitted[1].ServiceName = Shown(steps[j].r.Service)
               /\ steps[j].emitted[1].Type =
                      (IF steps[j].kindBefore = "down" THEN "up" ELSE "down")

\* a service goes down a second time: down, up, down
C23_Witness ==
    \E j \in StepIdx :
        /\ DistinctServices
        /\ EmitsDown(steps[j])
        /\ steps[j].kindBefore = "up"
        /\ lastKind[Ident(steps[j].r.Service)] = "down"

\* ------------------------------------------------------------------------
\* Properties of checkAll (SpecSched)
\* ------------------------------------------------------------------------

\* C8: checkAll returns one outcome per service, and the outcome at index i
\* is the one the probe of the i-th service produced, whatever the order in
\* which the probes were interleaved and completed; before the return a slot
\* holds either the zero value or that outcome.
C8_ResultsInInputOrder ==
    /\ Len(out) = Len(services)
    /\ \A i \in DOMAIN out :
           /\ writes[i] = 0 => out[i] = ZeroCheckResult
           /\ writes[i] > 0 => out[i] = probed[i] /\ out[i].Service = services[i]
    /\ cpc = "returned" =>
           \A i \in 1..Len(services) :
               writes[i] > 0 /\ out[i] = probed[i] /\ out[i].Service = services[i]

\* five services, limit 2, returned, with a probe that completed before one
\* launched earlier
C8_Witness ==
    /\ cpc = "returned"
    /\ Len(services) = 5
    /\ concurrency = 2
    /\ overtaken
    /\ out[1].Error = "http_503"
    /\ out[2].Up
    /\ out[5].Error = "request failed"

\* C9: at most `concurrency` probes are in flight in every state; the launch
\* of a further probe happens only with a slot that a finished probe gave
\* back (the tokens in the channel are the slots held).
C9_AtMostCInFlight ==
    /\ Cardinality(InFlight) <= concurrency
    /\ sem <= concurrency
    /\ sem = Cardinality(Holding) + (IF cpc = "go" THEN 1 ELSE 0)
    /\ cpc = "go" => Cardinality(Holding) < concurrency

\* the loop is blocked on the full channel with `concurrency` probes running
C9_Witness ==
    /\ cpc = "send"
    /\ Len(services) = 5
    /\ concurrency = 2
    /\ idx > concurrency
    /\ sem = concurrency
    /\ Cardinality(InFlight) = concurrency

\* C10: when checkAll returns, every slot has been written exactly once by a
\* probe that finished, and no goroutine of the call is still running.
C10_ReturnsAfterAll ==
    cpc = "returned" =>
        /\ \A i \in 1..Len(services) : writes[i] = 1 /\ gpc[i] = "exited"
        /\ InFlight = {}
        /\ wg = 0
        /\ sem = 0

\* a call with more services than slots has returned
C10_Witness ==
    /\ cpc = "returned"
    /\ Len(services) = 4
    /\ concurrency = 3
    /\ \A i \in 1..Len(services) : writes[i] = 1 /\ gpc[i] = "exited"

\* ------------------------------------------------------------------------
\* Properties of checkService (SpecProbe)
\* ------------------------------------------------------------------------

\* the request was built and a response came back
Answered == probeIn.resp.kind = "response" /\ ~MalformedURL(probeIn.svc.URL)

\* what C20 says of every call but for the two fixed tags
ProbeOutcomeShape ==
    /\ probeResult.Service = probeIn.svc
    /\ probeResult.Up \in BOOLEAN
    /\ probeResult.Up <=>
           (Answered /\ probeIn.resp.code >= 200 /\ probeIn.resp.code < 300)
    /\ probeResult.Up => probeResult.Error = ""
    /\ (Answered /\ ~probeResult.Up) =>
           /\ probeResult.Error = "http_" \o ToString(probeIn.resp.code)
           /\ probeResult.StatusCode = probeIn.resp.code

\* C20 as stated: the outcome is up iff a response came with a status in
\* [200,300); another status is down with http_<code>; a malformed address is
\* down with the tag invalid_url; a transport failure is down with the tag
\* request_failed.
C20_ProbeTagsAsStated ==
    probes > 0 =>
        /\ ProbeOutcomeShape
        /\ MalformedURL(probeIn.svc.URL) => probeResult.Error = "invalid_url"
        /\ (~MalformedURL(probeIn.svc.URL) /\ probeIn.resp.kind = "error") =>
               probeResult.Error = "request_failed"

\* C20 amended: the same, the two fixed tags being "invalid url" and
\* "request failed".
C20_ProbeOutcome ==
    probes > 0 =>
        /\ ProbeOutcomeShape
        /\ MalformedURL(probeIn.svc.URL) =>
               ~probeResult.Up /\ probeResult.Error = "invalid url"
        /\ (~MalformedURL(probeIn.svc.URL) /\ probeIn.resp.kind = "error") =>
               ~probeResult.Up /\ probeResult.Error = "request failed"

\* a 300 answer, reported down as http_300
C20_Witness ==
    /\ probes > 0
    /\ probeIn.resp = [kind |-> "response", code |-> 300]
    /\ ~probeResult.Up
    /\ probeResult.Error = "http_300"


\* ------------------------------------------------------------------------
\* Properties of the driver (SpecRun)
\* ------------------------------------------------------------------------

\* a cycle has finished and no other is under way
CycleOver == calls > 0 /\ rpc # "checkAll"

\* C11: when the cancellation signal arrives while a cycle is in flight,
\* every service still gets the outcome its probe would have produced
\* without the cancellation.  (The code hands the cancelled ctx to the probes
\* still to be made, so this is violated.)
C11_CancelLeavesOutcomes ==
    (CycleOver /\ ~cycleCtxDone) =>
        \A i \in DOMAIN results : results[i] = intended[i]

\* C12: once the cancellation signal has been delivered the driver starts no
\* further cycle, even when a tick is pending at the same moment.  (The
\* select may take the tick, so this is violated.)
C12_NoCycleAfterCancel == ~afterCancel

\* C13: a cycle is begun only when the one before has finished its tracker
\* pass and its notifications, and outside checkAll no probe goroutine is
\* alive, so the ServiceState map is touched by one cycle at a time and never
\* while a goroutine runs.
C13_CyclesDoNotOverlap ==
    /\ cycles - calls = (IF rpc = "checkAll" THEN 1 ELSE 0)
    /\ rpc # "checkAll" => \A g \in DOMAIN gpc : gpc[g] = "exited"

\* a tick waits while the second or a later cycle has probes in flight
C13_Witness ==
    /\ rpc = "checkAll"
    /\ cycles >= 2
    /\ tickPending
    /\ InFlight # {}
    /\ states # << >>

\* C14: a failed board upsert or alert post leaves the ServiceState map and
\* the incident record as the tracker pass made them, and run returns only
\* on cancellation, so the next cycle is run.
C14_SinkFailureLeavesTrackerAndDriver ==
    /\ calls > 0 => (states = detected.states /\ lastIncident = detected.after)
    /\ rpc = "returned" => ctxDone

\* the cycle before failed at the board, and the next one is probing with
\* the tracked state intact
C14_Witness ==
    /\ cycleErr # ""
    /\ rpc = "checkAll"
    /\ cycles >= 2
    /\ ~ctxDone
    /\ InFlight # {}
    /\ \E k \in DOMAIN states : states[k].FailCount > 0
    /\ states = detected.states

\* the "up" transitions of the last tracker pass that carry a downtime
Qualifying ==
    SelectSeq(transitions, LAMBDA t : t.Type = "up" /\ t.Downtime # "")

\* C15: the incident record after a cycle is the last "up" transition with a
\* nonempty downtime of that cycle, in input order (its display name, its
\* downtime, the time of the cycle); without such a transition the record is
\* what it was before the cycle.
C15_IncidentLastWriteWins ==
    calls > 0 =>
        /\ lastIncident = detected.after
        /\ IF Len(Qualifying) > 0
           THEN detected.after =
                    [ServiceName |-> Qualifying[Len(Qualifying)].ServiceName,
                     OccurredAt |-> detected.at,
                     Duration |-> Qualifying[Len(Qualifying)].Downtime]
           ELSE detected.after = detected.before

\* two services recover in one cycle; the record names the second
C15_Witness ==
    /\ Len(Qualifying) = 2
    /\ Qualifying[1].ServiceName # Qualifying[2].ServiceName
    /\ lastIncident.ServiceName = Qualifying[2].ServiceName
    /\ lastIncident.Duration # ""

\* the alert posts of the last cycle, in order
AlertPosts ==
    LET posts == SelectSeq(sinkCalls,
                           LAMBDA c : c.api \in {"alert down", "alert up"})
    IN  [i \in 1..Len(posts) |-> posts[i].api]

DownCount == Len(SelectSeq(transitions, LAMBDA t : t.Type = "down"))
UpCount == Len(SelectSeq(transitions, LAMBDA t : t.Type = "up"))

\* C16: a cycle posts at most one alert for its down transitions and at most
\* one for its up transitions, the down one first; with at least one down and
\* at least one up transition it posts exactly two, and with no transition
\* none.  (A cycle whose board upsert fails posts none, so this is violated.)
C16_OneAlertPerBatch ==
    CycleOver =>
        /\ AlertPosts \in { << >>, <<"alert down">>, <<"alert up">>,
                            <<"alert down", "alert up">> }
        /\ (DownCount >= 1 /\ UpCount >= 1) =>
               AlertPosts = <<"alert down", "alert up">>
        /\ (DownCount = 0 /\ UpCount = 0) => AlertPosts = << >>

\* C24: every transition of a cycle is handed to the alert sink in that
\* cycle: a cycle with a down transition makes the down alert post and one
\* with an up transition the up alert post, whatever became of the board
\* upsert.  (runCycle returns before sendAlerts when the upsert fails, so this
\* is violated.)
C24_TransitionsReachAlertSink ==
    CycleOver =>
        /\ DownCount >= 1 => \E i \in DOMAIN AlertPosts : AlertPosts[i] = "alert down"
        /\ UpCount >= 1 => \E i \in DOMAIN AlertPosts : AlertPosts[i] = "alert up"

====
